---- MODULE Spec2Model ----
(***************************************************************************)
(* LekkageAlarm: one LekkageAlarmMonitor per configuration entry watches   *)
(* an entity of the host, posts events and heartbeats to the collector     *)
(* with retries, and records the last successful contact.                  *)
(* Source: custom_components/lekkagealarm/__init__.py                      *)
(***************************************************************************)
EXTENDS Naturals, Sequences, FiniteSets, TLC

(***************************************************************************)
(* Bounds of the model.                                                    *)
(***************************************************************************)
\* send coroutines (event or heartbeat) created in one behaviour
MaxTasks == 2
\* LekkageAlarmMonitor instances constructed in one behaviour
MaxInst == 1
\* LekkageAlarmMonitor instances constructed in one behaviour with reloads
MaxReloadInst == 2
\* configuration flows started in one behaviour
MaxFlows == 2
\* pairing requests sent in one behaviour
MaxPairs == 2

(***************************************************************************)
(* Program constants.                                                      *)
(***************************************************************************)
\* const.py: DEFAULT_HEARTBEAT_INTERVAL
DEFAULT_HEARTBEAT_INTERVAL == 3600
\* _async_post_to_collector: for attempt in range(1, 4)
MaxAttempts == 3
\* _async_post_to_collector: if resp.status == 200
HTTP_OK == 200

(***************************************************************************)
(* Values.  Python's None is the string None (no entity value equals it);  *)
(* an absent datetime is NoTime.                                           *)
(***************************************************************************)
None == "<None>"
NoTime == 0
\* no response has made the post return True
NoStatus == 0
\* a status other than 200
HTTP_ERROR == 500

\* values an entity's state or attribute takes in the model
Values == {"Wet", "wet", "dry"}

\* str.lower() on the strings of the model
Lower(s) ==
    CASE s = "Wet" -> "wet"
      [] s = " Dry " -> " dry "
      [] OTHER -> s

\* str.strip() on the strings of the model
Strip(s) ==
    CASE s = " Dry " -> "Dry"
      [] s = " dry " -> "dry"
      [] OTHER -> s

\* bool(x) of a str | None
Truthy(s) == s # None /\ s # ""

\* x in list
InList(x, l) == \E i \in 1..Len(l) : l[i] = x

\* [f(s) for s in l]
RECURSIVE NormalizeStates(_)
NormalizeStates(l) ==
    IF l = <<>> THEN <<>>
    ELSE <<Strip(Lower(Head(l)))>> \o NormalizeStates(Tail(l))

(***************************************************************************)
(* The host's state registry: hass.states.get(entity_id) is a State        *)
(* object or None.  A State has .state and the dict .attributes.           *)
(***************************************************************************)
Entities == {"sensor.leak"}
WatchedAttribute == "level"

NoAttributes == [k \in {} |-> None]
Absent == [exists |-> FALSE, state |-> None, attributes |-> NoAttributes]
StateObj(s, attrs) == [exists |-> TRUE, state |-> s, attributes |-> attrs]

\* the State objects of the model: with and without the attribute, and with
\* values that differ in case only
StateObjs ==
    {StateObj("Wet", NoAttributes),
     StateObj("wet", [k \in {WatchedAttribute} |-> "dry"]),
     StateObj("dry", [k \in {WatchedAttribute} |-> "Wet"])}

\* dict.get(key)
DictGet(d, k) == IF k \in DOMAIN d THEN d[k] ELSE None

(***************************************************************************)
(* Configuration entries: entry.data as setup reads it.                    *)
(***************************************************************************)
EntryIds == {"e1"}
Token == "tok"
CollectorUrl == "http://collector/"

EntryDataOf(attribute, monitored_states, heartbeat_interval) ==
    [collector_url |-> CollectorUrl,
     token |-> Token,
     entity_id |-> "sensor.leak",
     attribute |-> attribute,
     monitored_states |-> monitored_states,
     heartbeat_interval |-> heartbeat_interval]

\* the entry data of the model: the state or an attribute watched, with and
\* without trigger states, with and without heartbeats
EntryData ==
    {EntryDataOf(None, <<"Wet">>, DEFAULT_HEARTBEAT_INTERVAL),
     EntryDataOf("", <<>>, 0),
     EntryDataOf(WatchedAttribute, <<" Dry ", "wet">>, 0),
     EntryDataOf(WatchedAttribute, <<>>, DEFAULT_HEARTBEAT_INTERVAL)}

\* const.py: endpoints appended to the collector URL
EVENT_ENDPOINT == "/event"
HEARTBEAT_ENDPOINT == "/heartbeat"

\* str.rstrip("/") on the URLs of the model
RstripSlash(u) == IF u = "http://collector/" THEN "http://collector" ELSE u

(***************************************************************************)
(* LekkageAlarmMonitor: construction, the listener's decision, the start   *)
(* and stop of the subscriptions.  A monitor is a record of its fields;    *)
(* unsub_state and unsub_heartbeat are TRUE while the field holds an       *)
(* unsubscribe callable and FALSE while it is None.                        *)
(***************************************************************************)

\* async_setup_entry reads entry.data and constructs the monitor
NewMonitor(entry_id, data) ==
    [entry_id |-> entry_id,
     collector_url |-> RstripSlash(data.collector_url),
     token |-> data.token,
     entity_id |-> data.entity_id,
     attribute |-> IF Truthy(data.attribute) THEN data.attribute ELSE None,
     trigger_states |-> NormalizeStates(NormalizeStates(data.monitored_states)),
     heartbeat_interval |-> data.heartbeat_interval,
     unsub_state |-> FALSE,
     unsub_heartbeat |-> FALSE,
     last_contact_time |-> NoTime,
     last_event_time |-> NoTime,
     last_event_value |-> None,
     last_heartbeat_time |-> NoTime]

\* the value the monitor watches in a State object: the attribute or the state
WatchedValue(mon, state_obj) ==
    IF Truthy(mon.attribute)
    THEN DictGet(state_obj.attributes, mon.attribute)
    ELSE state_obj.state

\* not self.trigger_states or value in self.trigger_states
IsTrigger(mon, value) ==
    mon.trigger_states = <<>> \/ InList(value, mon.trigger_states)

\* ShouldFire without the comparison of the new value with the old one
ShouldFire_NoChangeTest(mon, str_old, str_new) ==
    IsTrigger(mon, str_new)

\* _state_change_listener's condition on the two lower-cased values
ShouldFire(mon, str_old, str_new) ==
    str_new # str_old /\ IsTrigger(mon, str_new)

\* _state_change_listener: the values it hands to _async_handle_trigger_event
state_change_listener(mon, old_state, new_state) ==
    IF ~new_state.exists THEN <<>>
    ELSE LET new_val == WatchedValue(mon, new_state)
             old_val == IF old_state.exists THEN WatchedValue(mon, old_state) ELSE None
         IN  IF new_val = None THEN <<>>
             ELSE LET str_new == Lower(new_val)
                      str_old == IF old_val # None THEN Lower(old_val) ELSE None
                  IN  IF ShouldFire(mon, str_old, str_new) THEN <<str_new>> ELSE <<>>

\* async_start with the test heartbeat_interval >= 0
async_start_TimerAtZero(mon) ==
    [mon EXCEPT !.unsub_state = TRUE,
                !.unsub_heartbeat = (mon.heartbeat_interval >= 0)]

\* async_start: the subscriptions it registers
async_start(mon) ==
    [mon EXCEPT !.unsub_state = TRUE,
                !.unsub_heartbeat = (mon.heartbeat_interval > 0)]

\* initial_event that tests the value as it is, not lower-cased
initial_event_NoLower(mon, current_state) ==
    IF ~current_state.exists THEN <<>>
    ELSE LET cur_val == WatchedValue(mon, current_state)
         IN  IF cur_val = None THEN <<>>
             ELSE IF IsTrigger(mon, cur_val) THEN <<Lower(cur_val)>> ELSE <<>>

\* async_start: the initial event it sends for the current state
initial_event(mon, current_state) ==
    IF ~current_state.exists THEN <<>>
    ELSE LET cur_val == WatchedValue(mon, current_state)
         IN  IF cur_val = None THEN <<>>
             ELSE IF IsTrigger(mon, Lower(cur_val)) THEN <<Lower(cur_val)>> ELSE <<>>

\* async_stop that does not call self._unsub_state()
stop_calls_NoStateUnsub(mon) ==
    IF mon.unsub_heartbeat THEN {"heartbeat"} ELSE {}

\* async_stop: the unsubscribe callables it calls
stop_calls(mon) ==
    (IF mon.unsub_state THEN {"state"} ELSE {})
    \cup (IF mon.unsub_heartbeat THEN {"heartbeat"} ELSE {})

\* async_stop that calls the callables and keeps them in the fields
async_stop_KeepsHandles(mon) == mon

\* async_stop: the monitor after it
async_stop(mon) ==
    LET m1 == IF mon.unsub_state THEN [mon EXCEPT !.unsub_state = FALSE] ELSE mon
    IN  IF m1.unsub_heartbeat THEN [m1 EXCEPT !.unsub_heartbeat = FALSE] ELSE m1

\* send_current_state that sends a trigger state only
send_current_state_Filtered(mon, state_obj) ==
    IF ~state_obj.exists THEN <<>>
    ELSE LET value == WatchedValue(mon, state_obj)
         IN  IF value = None THEN <<>>
             ELSE IF IsTrigger(mon, Lower(value)) THEN <<Lower(value)>> ELSE <<>>

\* send_current_state: the values it hands to _async_handle_trigger_event
send_current_state(mon, state_obj) ==
    IF ~state_obj.exists THEN <<>>
    ELSE LET value == WatchedValue(mon, state_obj)
         IN  IF value = None THEN <<>> ELSE <<Lower(value)>>

(***************************************************************************)
(* Sends.  A send is one run of _async_handle_trigger_event or of          *)
(* _async_handle_heartbeat: it builds its payload, awaits                  *)
(* _async_post_to_collector and, on success, updates the monitor.          *)
(*   pc = "post"      the request of attempt `attempt` is awaited          *)
(*   pc = "sleep"     asyncio.sleep(attempt) is awaited                    *)
(*   pc = "done_ok"   the post returned True and the handler finished      *)
(*   pc = "done_fail" the post returned False                              *)
(*   pc = "raised"    an exception left the post and the handler           *)
(* posts counts the session.post calls, waits lists the sleeps in seconds, *)
(* next holds the monitors a service call still has to serve after this    *)
(* send (see the service handlers).                                        *)
(***************************************************************************)

\* _async_handle_trigger_event: the payload (the timestamp is not modelled)
EventPayload(mon, new_value) ==
    [token |-> mon.token,
     entity_id |-> mon.entity_id,
     attribute |-> IF Truthy(mon.attribute) THEN mon.attribute ELSE "state",
     new_state |-> new_value,
     type |-> "state_change"]

\* HeartbeatPayload with the value lower-cased, as the event payload has it
HeartbeatPayload_Lowered(mon, current_state) ==
    LET base == [token |-> mon.token,
                 entity_id |-> mon.entity_id,
                 type |-> "heartbeat"]
        cur_val == IF current_state.exists THEN WatchedValue(mon, current_state) ELSE None
    IN  IF current_state.exists /\ cur_val # None
        THEN base @@ ("current_state" :> Lower(cur_val))
        ELSE base

\* _async_handle_heartbeat: the payload (the timestamp is not modelled);
\* current_state is a key only when the entity and its value are present
HeartbeatPayload(mon, current_state) ==
    LET base == [token |-> mon.token,
                 entity_id |-> mon.entity_id,
                 type |-> "heartbeat"]
        cur_val == IF current_state.exists THEN WatchedValue(mon, current_state) ELSE None
    IN  IF current_state.exists /\ cur_val # None
        THEN base @@ ("current_state" :> cur_val)
        ELSE base

\* a send at its first attempt
NewSend(m, kind, origin, url, payload, next) ==
    [mon |-> m, kind |-> kind, origin |-> origin, url |-> url, payload |-> payload,
     attempt |-> 1, pc |-> "post", posts |-> 0, waits |-> <<>>, status |-> NoStatus,
     next |-> next]

EventSend(m, mon, new_value, origin, next) ==
    NewSend(m, "event", origin, <<mon.collector_url, EVENT_ENDPOINT>>,
            EventPayload(mon, new_value), next)

HeartbeatSend(m, mon, current_state, origin, next) ==
    NewSend(m, "heartbeat", origin, <<mon.collector_url, HEARTBEAT_ENDPOINT>>,
            HeartbeatPayload(mon, current_state), next)

\* What one attempt of _async_post_to_collector can meet:
\*   "200"      a response with status 200, body read
\*   "status"   a response with another status, body read
\*   "timeout"  asyncio.TimeoutError
\*   "neterr"   aiohttp.ClientError
\*   "bodyerr"  resp.text() raises an error that is neither (a decoding error)
Outcomes == {"200", "status", "timeout", "neterr", "bodyerr"}

\* resp.status of the outcomes that are a response
RespStatus(outcome) == IF outcome = "200" THEN HTTP_OK ELSE HTTP_ERROR

\* except asyncio.TimeoutError / except aiohttp.ClientError
Caught(outcome) == outcome \in {"timeout", "neterr"}

\* post_attempt without the test of resp.status: any response read is a success
post_attempt_AnyStatus(send, outcome) ==
    LET s1 == [send EXCEPT !.posts = @ + 1]
        sleep == [s1 EXCEPT !.pc = "sleep", !.waits = Append(@, send.attempt)]
    IN  IF outcome \in {"200", "status"}
        THEN [s1 EXCEPT !.pc = "done_ok", !.status = RespStatus(outcome)]
        ELSE IF Caught(outcome) THEN sleep
             ELSE [s1 EXCEPT !.pc = "raised"]

\* _async_post_to_collector: one attempt, until its next await or its return
post_attempt(send, outcome) ==
    LET s1 == [send EXCEPT !.posts = @ + 1]
        sleep == [s1 EXCEPT !.pc = "sleep", !.waits = Append(@, send.attempt)]
    IN  IF outcome \in {"200", "status"}
        THEN IF RespStatus(outcome) = HTTP_OK
             THEN [s1 EXCEPT !.pc = "done_ok", !.status = RespStatus(outcome)]
             ELSE sleep
        ELSE IF Caught(outcome) THEN sleep
             ELSE [s1 EXCEPT !.pc = "raised"]

\* after_sleep with a loop that runs once more: range(1, 5)
after_sleep_FourAttempts(send) ==
    IF send.attempt < MaxAttempts + 1
    THEN [send EXCEPT !.attempt = @ + 1, !.pc = "post"]
    ELSE [send EXCEPT !.pc = "done_fail"]

\* _async_post_to_collector: after asyncio.sleep(attempt), the next turn of
\* for attempt in range(1, 4), or return False
after_sleep(send) ==
    IF send.attempt < MaxAttempts
    THEN [send EXCEPT !.attempt = @ + 1, !.pc = "post"]
    ELSE [send EXCEPT !.pc = "done_fail"]

\* record_success of an event without self.last_contact_time = self.last_event_time
record_success_NoContact(mon, send, t) ==
    IF send.kind = "event"
    THEN [mon EXCEPT !.last_event_time = t,
                     !.last_event_value = send.payload.new_state]
    ELSE [mon EXCEPT !.last_heartbeat_time = t,
                     !.last_contact_time = t]

\* record_success of a heartbeat without
\* self.last_contact_time = self.last_heartbeat_time
record_success_HeartbeatNoContact(mon, send, t) ==
    IF send.kind = "event"
    THEN [mon EXCEPT !.last_event_time = t,
                     !.last_event_value = send.payload.new_state,
                     !.last_contact_time = t]
    ELSE [mon EXCEPT !.last_heartbeat_time = t]

\* the handlers' "if success:" branch; t is datetime.utcnow()
\* handlers that drop the result of a send once async_stop() has run
record_success_IgnoredWhenStopped(mon, send, t) ==
    IF ~mon.unsub_state THEN mon
    ELSE IF send.kind = "event"
         THEN [mon EXCEPT !.last_event_time = t,
                          !.last_event_value = send.payload.new_state,
                          !.last_contact_time = t]
         ELSE [mon EXCEPT !.last_heartbeat_time = t,
                          !.last_contact_time = t]

record_success(mon, send, t) ==
    IF send.kind = "event"
    THEN [mon EXCEPT !.last_event_time = t,
                     !.last_event_value = send.payload.new_state,
                     !.last_contact_time = t]
    ELSE [mon EXCEPT !.last_heartbeat_time = t,
                     !.last_contact_time = t]

\* dispatcher.async_dispatcher_send(hass, f"{DOMAIN}_{entry_id}_update", time)
\* LekkageAlarmSensor.__init__ for the monitor m the registry gave (0: none)
NewSensor(m, mons) ==
    [monitor |-> m,
     last_contact |-> IF m = 0 THEN NoTime ELSE mons[m].last_contact_time,
     connected |-> FALSE]

\* LekkageAlarmSensor.native_value
native_value(sensor) ==
    IF sensor.last_contact = NoTime THEN None
    ELSE <<"%Y-%m-%dT%H:%M:%SZ", sensor.last_contact>>

\* a dispatcher that delivers the signal to no receiver
deliver_ToNobody(sens, signal) == sens

\* async_dispatcher_send: _handle_update of the connected sensor of the entry
deliver(sens, signal) ==
    IF signal.signal \in DOMAIN sens /\ sens[signal.signal].connected
    THEN [sens EXCEPT ![signal.signal].last_contact = signal.time]
    ELSE sens

Signal(mon) == [signal |-> mon.entry_id, time |-> mon.last_contact_time]

Finished(send) == send.pc \in {"done_ok", "done_fail", "raised"}

(***************************************************************************)
(* State.                                                                  *)
(***************************************************************************)
VARIABLES
    entries,          \* the configuration entries: entry id -> entry.data
    hass_states,      \* hass.states: entity id -> State object or Absent
    registry,         \* hass.data[DOMAIN]: <<entry id, monitor>> in insertion order
    monitors,         \* the monitors constructed so far; a monitor is its index
    state_listeners,  \* monitors whose state-change listener the host holds
    time_listeners,   \* monitors whose interval timer the host holds
    stop_listeners,   \* monitors whose EVENT_HOMEASSISTANT_STOP hook the host holds
    stop_tasks,       \* monitors with an async_stop() task created by the hook
    ha_stop_fired,    \* EVENT_HOMEASSISTANT_STOP was fired
    unsub_calls,      \* per monitor, how often each unsubscribe callable was called
    tasks,            \* the sends created so far
    dispatched,       \* the dispatcher signals sent so far
    now,              \* the clock datetime.utcnow() reads
    loaded,           \* entry ids the host has set up (ConfigEntryState.LOADED)
    yaml,             \* configuration.yaml: the items under the domain's key
    setup_result,     \* async_setup: "none" before it, then "ok" or "invalid"
    flows,            \* the configuration flows started so far
    config_entries,   \* the host's configuration entries of the domain: entry.data
    pair_log,         \* the requests made to the pairing endpoint
    sensors           \* entry id -> the LekkageAlarmSensor the platform constructed

\* the variables of the configuration flow
flow_vars == <<yaml, setup_result, flows, config_entries, pair_log>>

vars == <<entries, hass_states, registry, monitors, state_listeners, time_listeners,
          stop_listeners, stop_tasks, ha_stop_fired, unsub_calls, tasks, dispatched,
          now, loaded, flow_vars, sensors>>

Monitors == 1..Len(monitors)
TaskIds == 1..Len(tasks)

RECURSIVE SumNext(_)
SumNext(ts) == IF ts = <<>> THEN 0
               ELSE (IF Finished(Head(ts)) THEN 0 ELSE Len(Head(ts).next)) + SumNext(Tail(ts))

\* the model creates at most MaxTasks sends: k more fit beside those created
\* and those the running service calls still have to create
Room(k) == Len(tasks) + SumNext(tasks) + k <= MaxTasks

\* entry_id in hass.data[DOMAIN]
Loaded(e) == \E i \in 1..Len(registry) : registry[i][1] = e

\* no YAML configuration and no flow
\* the sensor platform has constructed no entity
NoSensor == sensors = <<>>

NoFlow ==
    /\ yaml = <<>>
    /\ setup_result = "none"
    /\ flows = <<>>
    /\ config_entries = <<>>
    /\ pair_log = <<>>

Init ==
    /\ entries \in [EntryIds -> EntryData]
    /\ hass_states \in [Entities -> StateObjs \cup {Absent}]
    /\ registry = <<>>
    /\ monitors = <<>>
    /\ state_listeners = {}
    /\ time_listeners = {}
    /\ stop_listeners = {}
    /\ stop_tasks = {}
    /\ ha_stop_fired = FALSE
    /\ unsub_calls = <<>>
    /\ tasks = <<>>
    /\ dispatched = <<>>
    /\ now = 1
    /\ loaded = {}
    /\ NoFlow
    /\ NoSensor

(***************************************************************************)
(* Setup and unload of a configuration entry.                              *)
(***************************************************************************)

\* hass.data[DOMAIN][entry_id] = monitor
RegistryPut(e, m) ==
    IF Loaded(e)
    THEN [i \in 1..Len(registry) |->
             IF registry[i][1] = e THEN <<e, m>> ELSE registry[i]]
    ELSE Append(registry, <<e, m>>)

\* async_setup_entry up to hass.data[DOMAIN][entry.entry_id] = monitor: the
\* monitor is constructed and started (async_start awaits nothing), then
\* registered.  No entry is set up once the host is stopping.
\* async_setup_entry that starts again the instance it constructed for the
\* entry before, when there is one
SetupInstance_Reuses(e, bound) ==
    LET olds == {i \in 1..Len(monitors) : monitors[i].entry_id = e}
        fresh == olds = {}
        m == IF fresh THEN Len(monitors) + 1 ELSE CHOOSE i \in olds : TRUE
        mon == async_start(IF fresh THEN NewMonitor(e, entries[e]) ELSE monitors[m])
        vals == initial_event(mon, hass_states[mon.entity_id])
        sends == [i \in 1..Len(vals) |-> EventSend(m, mon, vals[i], "start", <<>>)]
    IN  /\ ~ha_stop_fired
        /\ e \notin loaded
        /\ loaded' = loaded \cup {e}
        /\ fresh => Len(monitors) < bound
        /\ Room(Len(sends))
        /\ monitors' = IF fresh THEN Append(monitors, mon)
                       ELSE [monitors EXCEPT ![m] = mon]
        /\ unsub_calls' = IF fresh THEN Append(unsub_calls, [state |-> 0, heartbeat |-> 0])
                          ELSE unsub_calls
        /\ state_listeners' = IF mon.unsub_state THEN state_listeners \cup {m}
                              ELSE state_listeners
        /\ time_listeners' = IF mon.unsub_heartbeat THEN time_listeners \cup {m}
                             ELSE time_listeners
        /\ tasks' = tasks \o sends
        /\ stop_listeners' = stop_listeners \cup {m}
        /\ registry' = RegistryPut(e, m)
        /\ UNCHANGED <<flow_vars, sensors, entries, hass_states, stop_tasks, ha_stop_fired,
                       dispatched, now>>

\* async_setup_entry up to hass.data[DOMAIN][entry.entry_id] = monitor, with at
\* most bound instances in the behaviour
SetupInstance(e, bound) ==
    LET m == Len(monitors) + 1
        mon == async_start(NewMonitor(e, entries[e]))
        vals == initial_event(mon, hass_states[mon.entity_id])
        sends == [i \in 1..Len(vals) |-> EventSend(m, mon, vals[i], "start", <<>>)]
    IN  /\ ~ha_stop_fired
        /\ e \notin loaded
        /\ loaded' = loaded \cup {e}
        /\ Len(monitors) < bound
        /\ Room(Len(sends))
        /\ monitors' = Append(monitors, mon)
        /\ unsub_calls' = Append(unsub_calls, [state |-> 0, heartbeat |-> 0])
        /\ state_listeners' = IF mon.unsub_state THEN state_listeners \cup {m}
                              ELSE state_listeners
        /\ time_listeners' = IF mon.unsub_heartbeat THEN time_listeners \cup {m}
                             ELSE time_listeners
        /\ tasks' = tasks \o sends
        /\ stop_listeners' = stop_listeners \cup {m}
        /\ registry' = RegistryPut(e, m)
        /\ UNCHANGED <<flow_vars, sensors, entries, hass_states, stop_tasks, ha_stop_fired,
                       dispatched, now>>

SetupEntry(e) == SetupInstance(e, MaxInst)

\* monitor.async_stop() on monitor m
StopMonitor(m) ==
    LET mon == monitors[m]
        calls == stop_calls(mon)
    IN  /\ monitors' = [monitors EXCEPT ![m] = async_stop(mon)]
        /\ state_listeners' = IF "state" \in calls THEN state_listeners \ {m}
                              ELSE state_listeners
        /\ time_listeners' = IF "heartbeat" \in calls THEN time_listeners \ {m}
                             ELSE time_listeners
        /\ unsub_calls' = [unsub_calls EXCEPT ![m] =
               [state |-> @.state + (IF "state" \in calls THEN 1 ELSE 0),
                heartbeat |-> @.heartbeat + (IF "heartbeat" \in calls THEN 1 ELSE 0)]]

\* async_unload_entry that reads the monitor and leaves it in the registry
RegistryPop_KeepsEntry(e) == registry

\* dict.pop(entry_id)
RegistryPop(e) == SelectSeq(registry, LAMBDA p : p[1] # e)
RegistryGet(e) == (CHOOSE i \in 1..Len(registry) : registry[i][1] = e)

\* async_unload_entry: the monitor is popped from the registry and stopped
UnloadEntry(e) ==
    /\ e \in loaded
    /\ loaded' = loaded \ {e}
    /\ registry' = RegistryPop(e)
    /\ sensors' = [x \in DOMAIN sensors \ {e} |-> sensors[x]]
    /\ IF Loaded(e)
       THEN StopMonitor(registry[RegistryGet(e)][2])
       ELSE UNCHANGED <<monitors, state_listeners, time_listeners, unsub_calls>>
    /\ UNCHANGED <<flow_vars, entries, hass_states, stop_listeners, stop_tasks, ha_stop_fired,
                   tasks, dispatched, now>>

\* the host fires EVENT_HOMEASSISTANT_STOP: each hook (async_listen_once) runs
\* once and creates a task for async_stop()
HomeAssistantStop ==
    /\ ~ha_stop_fired
    /\ ha_stop_fired' = TRUE
    /\ stop_tasks' = stop_listeners
    /\ stop_listeners' = {}
    /\ UNCHANGED <<flow_vars, sensors, loaded, entries, hass_states, registry, monitors, state_listeners,
                   time_listeners, unsub_calls, tasks, dispatched, now>>

\* a task created by the hook runs async_stop()
RunStopTask(m) ==
    /\ m \in stop_tasks
    /\ stop_tasks' = stop_tasks \ {m}
    /\ StopMonitor(m)
    /\ UNCHANGED <<flow_vars, sensors, loaded, entries, hass_states, registry, stop_listeners, ha_stop_fired,
                   tasks, dispatched, now>>

(***************************************************************************)
(* The host's notifications.                                               *)
(***************************************************************************)

\* the sends the listeners of entity ent create, in the order of registration
RECURSIVE ListenerSends(_, _, _, _)
\* listeners that start no send while a send of their monitor is unfinished
RECURSIVE ListenerSends_Coalesced(_, _, _, _)
ListenerSends_Coalesced(m, ent, old_state, new_state) ==
    IF m > Len(monitors) THEN <<>>
    ELSE LET mon == monitors[m]
             busy == \E t \in 1..Len(tasks) : tasks[t].mon = m /\ ~Finished(tasks[t])
             vals == IF m \in state_listeners /\ mon.entity_id = ent /\ ~busy
                     THEN state_change_listener(mon, old_state, new_state)
                     ELSE <<>>
         IN  [i \in 1..Len(vals) |-> EventSend(m, mon, vals[i], "listener", <<>>)]
             \o ListenerSends_Coalesced(m + 1, ent, old_state, new_state)

ListenerSends(m, ent, old_state, new_state) ==
    IF m > Len(monitors) THEN <<>>
    ELSE LET mon == monitors[m]
             vals == IF m \in state_listeners /\ mon.entity_id = ent
                     THEN state_change_listener(mon, old_state, new_state)
                     ELSE <<>>
         IN  [i \in 1..Len(vals) |-> EventSend(m, mon, vals[i], "listener", <<>>)]
             \o ListenerSends(m + 1, ent, old_state, new_state)

\* the state machine writes entity ent (new_state Absent: the entity is
\* removed) and fires state_changed with (old_state, new_state); the listeners
\* are callbacks and run in the same step
StateChanged(ent, new_state) ==
    LET old_state == hass_states[ent]
        sends == ListenerSends(1, ent, old_state, new_state)
    IN  /\ old_state.exists \/ new_state.exists
        /\ hass_states' = [hass_states EXCEPT ![ent] = new_state]
        /\ Room(Len(sends))
        /\ tasks' = tasks \o sends
        /\ UNCHANGED <<flow_vars, sensors, loaded, entries, registry, monitors, state_listeners, time_listeners,
                       stop_listeners, stop_tasks, ha_stop_fired, unsub_calls,
                       dispatched, now>>

\* the interval timer of monitor m fires: _async_handle_heartbeat(now) runs to
\* its await of the post
TimerTick(m) ==
    /\ m \in time_listeners
    /\ Room(1)
    /\ tasks' = Append(tasks, HeartbeatSend(m, monitors[m],
                           hass_states[monitors[m].entity_id], "timer", <<>>))
    /\ UNCHANGED <<flow_vars, sensors, loaded, entries, hass_states, registry, monitors, state_listeners,
                   time_listeners, stop_listeners, stop_tasks, ha_stop_fired,
                   unsub_calls, dispatched, now>>

(***************************************************************************)
(* The services send_heartbeat and send_state.                             *)
(***************************************************************************)
ServiceEntityIds == Entities \cup {"sensor.other"}

\* the handlers' targets: every registered monitor when entity_id is missing
\* or empty (ids = {}), else those whose entity id is listed
RECURSIVE Targets(_, _)
Targets(reg, ids) ==
    IF reg = <<>> THEN <<>>
    ELSE (IF ids = {} \/ monitors[Head(reg)[2]].entity_id \in ids
          THEN <<Head(reg)[2]>> ELSE <<>>) \o Targets(Tail(reg), ids)

\* ServeTargets whose loop ends at the first monitor that has nothing to send
ServeTargets_StopsAtMissing(service, targets) ==
    IF targets = <<>> THEN <<>>
    ELSE LET m == Head(targets)
             mon == monitors[m]
             cur == hass_states[mon.entity_id]
         IN  IF service = "send_heartbeat"
             THEN <<HeartbeatSend(m, mon, cur, service, Tail(targets))>>
             ELSE LET vals == send_current_state(mon, cur)
                  IN  IF vals = <<>> THEN <<>>
                      ELSE <<EventSend(m, mon, vals[1], service, Tail(targets))>>

\* for monitor in targets: await monitor.send_heartbeat() / send_current_state():
\* the handler runs until the first send that awaits its post; the monitors
\* after it wait in that send's next
RECURSIVE ServeTargets(_, _)
ServeTargets(service, targets) ==
    IF targets = <<>> THEN <<>>
    ELSE LET m == Head(targets)
             mon == monitors[m]
             cur == hass_states[mon.entity_id]
         IN  IF service = "send_heartbeat"
             THEN <<HeartbeatSend(m, mon, cur, service, Tail(targets))>>
             ELSE LET vals == send_current_state(mon, cur)
                  IN  IF vals = <<>> THEN ServeTargets(service, Tail(targets))
                      ELSE <<EventSend(m, mon, vals[1], service, Tail(targets))>>

\* _async_handle_send_heartbeat and _async_handle_send_state
ServiceCall(service, ids) ==
    LET targets == Targets(registry, ids)
    IN  /\ Room(Len(targets))
        /\ tasks' = tasks \o ServeTargets(service, targets)
        /\ UNCHANGED <<flow_vars, sensors, loaded, entries, hass_states, registry, monitors, state_listeners,
                       time_listeners, stop_listeners, stop_tasks, ha_stop_fired,
                       unsub_calls, dispatched, now>>

\* a send of a service call returned: the handler's loop goes on; an exception
\* leaves the handler
Continue(send) ==
    IF send.origin \in {"send_heartbeat", "send_state"} /\ send.pc \in {"done_ok", "done_fail"}
    THEN ServeTargets(send.origin, send.next)
    ELSE <<>>

(***************************************************************************)
(* The steps of a send.                                                    *)
(***************************************************************************)

\* the awaited request of send t ends with outcome; on status 200 the post
\* returns True and the handler records and publishes the contact (it awaits
\* nothing in between); each utcnow() reads a later time
PostAttempt(t, outcome) ==
    LET s1 == post_attempt(tasks[t], outcome)
        m == s1.mon
    IN  /\ tasks[t].pc = "post"
        /\ tasks' = [tasks EXCEPT ![t] = s1] \o Continue(s1)
        /\ IF s1.pc = "done_ok"
           THEN /\ now' = now + 1
                /\ monitors' = [monitors EXCEPT ![m] = record_success(@, s1, now)]
                /\ dispatched' = Append(dispatched, Signal(monitors'[m]))
                /\ sensors' = deliver(sensors, Signal(monitors'[m]))
           ELSE UNCHANGED <<monitors, dispatched, now, sensors>>
        /\ UNCHANGED <<flow_vars, loaded, entries, hass_states, registry, state_listeners, time_listeners,
                       stop_listeners, stop_tasks, ha_stop_fired, unsub_calls>>

\* asyncio.sleep(attempt) of send t ends
SleepEnds(t) ==
    LET s1 == after_sleep(tasks[t])
    IN  /\ tasks[t].pc = "sleep"
        /\ tasks' = [tasks EXCEPT ![t] = s1] \o Continue(s1)
        /\ UNCHANGED <<flow_vars, sensors, loaded, entries, hass_states, registry, monitors, state_listeners,
                       time_listeners, stop_listeners, stop_tasks, ha_stop_fired,
                       unsub_calls, dispatched, now>>

Next ==
    \/ \E e \in EntryIds : SetupEntry(e)
    \/ \E e \in EntryIds : UnloadEntry(e)
    \/ HomeAssistantStop
    \/ \E m \in Monitors : RunStopTask(m)
    \/ \E ent \in Entities, new_state \in StateObjs \cup {Absent} : StateChanged(ent, new_state)
    \/ \E m \in Monitors : TimerTick(m)
    \/ \E service \in {"send_heartbeat", "send_state"}, ids \in SUBSET ServiceEntityIds :
          ServiceCall(service, ids)
    \/ \E t \in TaskIds, outcome \in Outcomes : PostAttempt(t, outcome)
    \/ \E t \in TaskIds : SleepEnds(t)

Spec == Init /\ [][Next]_vars

(***************************************************************************)
(* Two entries set up: the services with several registered monitors.      *)
(***************************************************************************)
SvcEntryIds == <<"e1", "e2">>
SvcEntities == ServiceEntityIds

\* entry.data of an entry that watches entity
SvcEntryDataOf(entity, attribute, monitored_states, heartbeat_interval) ==
    [EntryDataOf(attribute, monitored_states, heartbeat_interval)
        EXCEPT !.entity_id = entity]

\* the first entry watches an attribute of sensor.leak; the second watches
\* the state of the same entity, or of another one
SvcEntries ==
    {[e \in {"e1", "e2"} |->
         IF e = "e1" THEN SvcEntryDataOf("sensor.leak", WatchedAttribute, <<"wet">>, 0)
         ELSE d2] :
     d2 \in {SvcEntryDataOf("sensor.leak", None, <<"dry">>, 0),
             SvcEntryDataOf("sensor.other", None, <<>>, 0)}}

SvcStateObjs ==
    {Absent,
     StateObj("Wet", NoAttributes),
     StateObj("dry", [k \in {WatchedAttribute} |-> "Wet"])}

\* the monitors async_setup_entry constructs and starts for e1, then e2
SvcMonitors(ents) ==
    [i \in 1..Len(SvcEntryIds) |->
        async_start(NewMonitor(SvcEntryIds[i], ents[SvcEntryIds[i]]))]

\* the initial event sends of those starts
RECURSIVE SvcInitialSends(_, _, _)
SvcInitialSends(mons, states, m) ==
    IF m > Len(mons) THEN <<>>
    ELSE LET vals == initial_event(mons[m], states[mons[m].entity_id])
         IN  [i \in 1..Len(vals) |-> EventSend(m, mons[m], vals[i], "start", <<>>)]
             \o SvcInitialSends(mons, states, m + 1)

\* the state after async_setup_entry of both entries
SvcInit ==
    /\ entries \in SvcEntries
    /\ hass_states \in [SvcEntities -> SvcStateObjs]
    /\ monitors = SvcMonitors(entries)
    /\ registry = [i \in 1..Len(SvcEntryIds) |-> <<SvcEntryIds[i], i>>]
    /\ loaded = {"e1", "e2"}
    /\ state_listeners = {m \in 1..Len(SvcEntryIds) : monitors[m].unsub_state}
    /\ time_listeners = {m \in 1..Len(SvcEntryIds) : monitors[m].unsub_heartbeat}
    /\ stop_listeners = 1..Len(SvcEntryIds)
    /\ stop_tasks = {}
    /\ ha_stop_fired = FALSE
    /\ unsub_calls = [i \in 1..Len(SvcEntryIds) |-> [state |-> 0, heartbeat |-> 0]]
    /\ tasks = SvcInitialSends(monitors, hass_states, 1)
    /\ dispatched = <<>>
    /\ now = 1
    /\ NoFlow
    /\ NoSensor

SvcNext ==
    \/ \E e \in {"e1", "e2"} : UnloadEntry(e)
    \/ \E ent \in SvcEntities, new_state \in SvcStateObjs : StateChanged(ent, new_state)
    \/ \E service \in {"send_heartbeat", "send_state"}, ids \in SUBSET ServiceEntityIds :
          ServiceCall(service, ids)
    \/ \E t \in TaskIds, outcome \in Outcomes : PostAttempt(t, outcome)
    \/ \E t \in TaskIds : SleepEnds(t)

SvcSpec == SvcInit /\ [][SvcNext]_vars

(***************************************************************************)
(* The configuration flow (config_flow.py) and the YAML import.  A flow is  *)
(* a record of the LekkageAlarmConfigFlow instance and of its position:     *)
(*   pc = "settings_form"  the settings form is shown                       *)
(*   pc = "settings_pair"  async_step_settings awaits _async_pair           *)
(*   pc = "device_form"    the device form is shown                         *)
(*   pc = "import_init"    the import flow was created by async_setup       *)
(*   pc = "import_pair"    async_step_import awaits _async_pair             *)
(*   pc = "created"        async_create_entry                               *)
(*   pc = "aborted"        the flow was aborted                             *)
(***************************************************************************)
PAIR_ENDPOINT == "/pair"

\* what the user types into the settings form
UrlInputs == {"http://collector", "http://collector/", "http://other"}
CodeInputs == {"", "1234"}

\* what the user enters in the device form
AttributeInputs == {"", WatchedAttribute}
StatesInputs == {<<>>, <<" Dry ">>}

\* the token the collector gives on pairing, and one written in YAML
PairedToken == "abc123"
YamlToken == "tokY"

\* an item of the domain's list in configuration.yaml, after the schema's
\* defaults; token and pairing_code are None when the key is missing
YamlItems ==
    {[collector_url |-> CollectorUrl,
      token |-> tok,
      pairing_code |-> code,
      entity_id |-> "sensor.leak",
      attribute |-> None,
      monitored_states |-> <<>>,
      heartbeat_interval |-> DEFAULT_HEARTBEAT_INTERVAL] :
     tok \in {None, "", YamlToken}, code \in {None, "1234"}}

NoConf ==
    [collector_url |-> None, token |-> None, pairing_code |-> None, entity_id |-> None,
     attribute |-> None, monitored_states |-> <<>>, heartbeat_interval |-> 0]

NoSettings == [collector_url |-> None, token |-> None]

NoUniqueId == <<>>

\* _validate_auth that accepts an item with neither token nor pairing code
validate_auth_AcceptsAll(obj) == TRUE

\* _validate_auth: TRUE when it returns obj, FALSE when it raises vol.Invalid
validate_auth(obj) ==
    ~(~Truthy(obj.token) /\ ~Truthy(obj.pairing_code))

\* CONFIG_SCHEMA on the domain's list: every item passes _validate_auth
RECURSIVE ConfigValid(_)
ConfigValid(items) ==
    IF items = <<>> THEN TRUE
    ELSE validate_auth(Head(items)) /\ ConfigValid(Tail(items))

\* _normalize_monitored_states on a list
RECURSIVE normalize_monitored_states(_)
normalize_monitored_states(value) ==
    IF value = <<>> THEN <<>>
    ELSE (IF Strip(Head(value)) # "" THEN <<Strip(Head(value))>> ELSE <<>>)
         \o normalize_monitored_states(Tail(value))

\* _get_cached_token whose comparison never matches
get_cached_token_NoMatch(es, collector_url) == None

\* _get_cached_token over the current entries es
RECURSIVE get_cached_token(_, _)
get_cached_token(es, collector_url) ==
    IF es = <<>> THEN None
    ELSE IF /\ RstripSlash(Head(es).data.collector_url) = RstripSlash(collector_url)
            /\ Truthy(Head(es).data.token)
         THEN Head(es).data.token
         ELSE get_cached_token(Tail(es), collector_url)

\* What the request to the pairing endpoint can meet:
\*   "200_token"     status 200, body {"token": "abc123"}
\*   "200_empty"     status 200, body {"token": ""}
\*   "200_no_token"  status 200, body {}
\*   "404_token"     status 404, body {"token": "abc123"}
\*   "error"         the request or resp.json() raises
PairOutcomes == {"200_token", "200_empty", "200_no_token", "404_token", "error"}

HTTP_NOT_FOUND == 404

PairStatus(outcome) ==
    IF outcome \in {"200_token", "200_empty", "200_no_token"} THEN HTTP_OK
    ELSE HTTP_NOT_FOUND

\* data.get("token") of the decoded body
PairBodyToken(outcome) ==
    CASE outcome \in {"200_token", "404_token"} -> PairedToken
      [] outcome = "200_empty" -> ""
      [] OTHER -> None

\* _async_pair that does not look at resp.status
async_pair_AnyStatus(outcome) ==
    IF outcome = "error" THEN None
    ELSE IF ~Truthy(PairBodyToken(outcome)) THEN None
         ELSE PairBodyToken(outcome)

\* _async_pair: the token it returns, None when it raises
async_pair(outcome) ==
    IF outcome = "error" THEN None
    ELSE IF PairStatus(outcome) # HTTP_OK THEN None
         ELSE IF ~Truthy(PairBodyToken(outcome)) THEN None
              ELSE PairBodyToken(outcome)

\* the unique id f"{url}-{entity_id}-{attribute or 'state'}"
UniqueId(collector_url, entity_id, attribute) ==
    <<collector_url, entity_id, IF Truthy(attribute) THEN attribute ELSE "state">>

\* _abort_if_unique_id_configured: an entry has the unique id
UniqueIdConfigured(uid) ==
    \E i \in 1..Len(config_entries) : config_entries[i].unique_id = uid

NewFlow(source, conf) ==
    [source |-> source,
     pc |-> IF source = "user" THEN "settings_form" ELSE "import_init",
     conf |-> conf,
     settings |-> NoSettings,
     cached_token |-> None,
     collector_url |-> None,
     error |-> None,
     unique_id |-> NoUniqueId,
     result |-> 0]

\* a request to the pairing endpoint and its response ("pending" while awaited)
PairRequest(f, base_url, code) ==
    [flow |-> f, url |-> <<RstripSlash(base_url), PAIR_ENDPOINT>>, code |-> code,
     response |-> "pending"]

\* the index of the pending request of flow f
PendingRequest(f) ==
    CHOOSE i \in 1..Len(pair_log) :
        pair_log[i].flow = f /\ pair_log[i].response = "pending"

\* async_create_entry(data=data) of a flow with unique id uid
NewEntry(uid, source, data) == [unique_id |-> uid, source |-> source, data |-> data]

mon_vars_but_sensors ==
    <<entries, hass_states, registry, monitors, state_listeners, time_listeners,
      stop_listeners, stop_tasks, ha_stop_fired, unsub_calls, tasks, dispatched,
      now, loaded>>

mon_vars == <<entries, hass_states, registry, monitors, state_listeners, time_listeners,
              stop_listeners, stop_tasks, ha_stop_fired, unsub_calls, tasks, dispatched,
              now, loaded, sensors>>

FlowIds == 1..Len(flows)

\* the user opens the flow: async_step_user shows the settings form
StartUserFlow ==
    /\ Len(flows) < MaxFlows
    /\ flows' = Append(flows, NewFlow("user", NoConf))
    /\ UNCHANGED <<yaml, setup_result, config_entries, pair_log, mon_vars>>

\* async_step_settings(user_input) up to its await of _async_pair or its return
SubmitSettings(f, url, code) ==
    LET collector_url == RstripSlash(url)
        token == get_cached_token(config_entries, collector_url)
    IN  /\ flows[f].pc = "settings_form"
        /\ (~Truthy(token) /\ Truthy(code)) => Len(pair_log) < MaxPairs
        /\ IF ~Truthy(token) /\ ~Truthy(code)
           THEN /\ flows' = [flows EXCEPT ![f].error = "missing_pairing_code"]
                /\ pair_log' = pair_log
           ELSE IF ~Truthy(token)
                THEN /\ flows' = [flows EXCEPT ![f].pc = "settings_pair",
                                               ![f].collector_url = collector_url,
                                               ![f].error = None]
                     /\ pair_log' = Append(pair_log, PairRequest(f, collector_url, code))
                ELSE /\ flows' = [flows EXCEPT
                            ![f].pc = "device_form",
                            ![f].settings = [collector_url |-> collector_url,
                                             token |-> token],
                            ![f].cached_token = token,
                            ![f].collector_url = collector_url,
                            ![f].error = None]
                     /\ pair_log' = pair_log
        /\ UNCHANGED <<yaml, setup_result, config_entries, mon_vars>>

\* async_create_entry by flow f
CreateEntry(f, uid, data) ==
    /\ config_entries' = Append(config_entries, NewEntry(uid, flows[f].source, data))
    /\ flows' = [flows EXCEPT ![f].pc = "created",
                              ![f].unique_id = uid,
                              ![f].error = None,
                              ![f].result = Len(config_entries) + 1]

\* the flow is aborted
\* a unique-id test that never aborts the flow
UniqueIdTaken_Never(f, uid) == "free"

\* await self.async_set_unique_id(uid), which the host aborts when another flow
\* in progress holds the unique id, then self._abort_if_unique_id_configured():
\* the reason of the abort, "free" when there is none
UniqueIdTaken(f, uid) ==
    IF \E g \in 1..Len(flows) :
          /\ g # f
          /\ flows[g].pc \notin {"created", "aborted"}
          /\ flows[g].unique_id = uid
    THEN "already_in_progress"
    ELSE IF UniqueIdConfigured(uid) THEN "already_configured" ELSE "free"

AbortFlow(f, uid, reason) ==
    /\ flows' = [flows EXCEPT ![f].pc = "aborted", ![f].unique_id = uid,
                              ![f].error = reason]
    /\ config_entries' = config_entries

\* async_step_import: the entry data, pairing_code popped
ImportData(conf) ==
    [collector_url |-> conf.collector_url,
     token |-> conf.token,
     entity_id |-> conf.entity_id,
     attribute |-> conf.attribute,
     monitored_states |-> normalize_monitored_states(conf.monitored_states),
     heartbeat_interval |-> conf.heartbeat_interval]

\* the awaited _async_pair of flow f ends with outcome
PairResponse(f, outcome) ==
    LET fl == flows[f]
        token == async_pair(outcome)
    IN  /\ fl.pc \in {"settings_pair", "import_pair"}
        /\ pair_log' = [pair_log EXCEPT ![PendingRequest(f)].response = outcome]
        /\ IF fl.pc = "settings_pair"
           THEN /\ config_entries' = config_entries
                /\ flows' =
                     IF token = None
                     THEN [flows EXCEPT ![f].pc = "settings_form",
                                        ![f].error = "pair_failed"]
                     ELSE [flows EXCEPT
                              ![f].pc = "device_form",
                              ![f].settings = [collector_url |-> fl.collector_url,
                                               token |-> token],
                              ![f].cached_token = token]
           ELSE IF token = None
                THEN AbortFlow(f, fl.unique_id, "pair_failed")
                ELSE CreateEntry(f, fl.unique_id,
                                 ImportData([fl.conf EXCEPT !.token = token]))
        /\ UNCHANGED <<yaml, setup_result, mon_vars>>

\* async_step_device(user_input)
SubmitDevice(f, entity_id, attribute, states) ==
    LET fl == flows[f]
        monitored_states == normalize_monitored_states(states)
        data == [collector_url |-> fl.settings.collector_url,
                 token |-> fl.cached_token,
                 entity_id |-> entity_id,
                 attribute |-> IF Truthy(attribute) THEN attribute ELSE None,
                 monitored_states |-> monitored_states,
                 heartbeat_interval |-> DEFAULT_HEARTBEAT_INTERVAL]
        uid == UniqueId(data.collector_url, entity_id, data.attribute)
    IN  /\ fl.pc = "device_form"
        /\ IF monitored_states = <<>>
           THEN /\ flows' = [flows EXCEPT ![f].error = "pair_failed"]
                /\ config_entries' = config_entries
           ELSE IF UniqueIdTaken(f, uid) # "free"
                THEN AbortFlow(f, uid, UniqueIdTaken(f, uid))
                ELSE CreateEntry(f, uid, data)
        /\ UNCHANGED <<yaml, setup_result, pair_log, mon_vars>>

\* the host validates the YAML with CONFIG_SCHEMA; when it is valid
\* async_setup creates an import flow for each item
AsyncSetup ==
    /\ setup_result = "none"
    /\ Len(flows) + Len(yaml) <= MaxFlows
    /\ IF ConfigValid(yaml)
       THEN /\ setup_result' = "ok"
            /\ flows' = flows \o [i \in 1..Len(yaml) |-> NewFlow("import", yaml[i])]
       ELSE /\ setup_result' = "invalid"
            /\ flows' = flows
    /\ UNCHANGED <<yaml, config_entries, pair_log, mon_vars>>

\* async_step_import(import_config) up to its await of _async_pair or its return
ImportStep(f) ==
    LET conf == [flows[f].conf EXCEPT !.collector_url = RstripSlash(@)]
        uid == UniqueId(conf.collector_url, conf.entity_id, conf.attribute)
    IN  /\ flows[f].pc = "import_init"
        /\ (/\ UniqueIdTaken(f, uid) = "free"
            /\ ~Truthy(conf.token)
            /\ Truthy(conf.pairing_code)) => Len(pair_log) < MaxPairs
        /\ IF UniqueIdTaken(f, uid) # "free"
           THEN AbortFlow(f, uid, UniqueIdTaken(f, uid)) /\ pair_log' = pair_log
           ELSE IF ~Truthy(conf.token) /\ Truthy(conf.pairing_code)
                THEN /\ flows' = [flows EXCEPT ![f].pc = "import_pair",
                                               ![f].conf = conf,
                                               ![f].collector_url = conf.collector_url,
                                               ![f].unique_id = uid]
                     /\ pair_log' = Append(pair_log,
                            PairRequest(f, conf.collector_url, conf.pairing_code))
                     /\ config_entries' = config_entries
                ELSE CreateEntry(f, uid, ImportData(conf)) /\ pair_log' = pair_log
        /\ UNCHANGED <<yaml, setup_result, mon_vars>>

\* no monitor yet; the YAML holds no item of the domain, or one
FlowInit ==
    /\ entries = [e \in EntryIds |-> EntryDataOf(None, <<"Wet">>, DEFAULT_HEARTBEAT_INTERVAL)]
    /\ hass_states = [ent \in Entities |-> Absent]
    /\ registry = <<>>
    /\ monitors = <<>>
    /\ state_listeners = {}
    /\ time_listeners = {}
    /\ stop_listeners = {}
    /\ stop_tasks = {}
    /\ ha_stop_fired = FALSE
    /\ unsub_calls = <<>>
    /\ tasks = <<>>
    /\ dispatched = <<>>
    /\ now = 1
    /\ loaded = {}
    /\ yaml \in {<<>>} \cup {<<item>> : item \in YamlItems}
    /\ setup_result = "none"
    /\ flows = <<>>
    /\ config_entries = <<>>
    /\ pair_log = <<>>
    /\ NoSensor

FlowNext ==
    \/ StartUserFlow
    \/ \E f \in FlowIds, url \in UrlInputs, code \in CodeInputs : SubmitSettings(f, url, code)
    \/ \E f \in FlowIds, outcome \in PairOutcomes : PairResponse(f, outcome)
    \/ \E f \in FlowIds, attribute \in AttributeInputs, states \in StatesInputs :
          SubmitDevice(f, "sensor.leak", attribute, states)
    \/ AsyncSetup
    \/ \E f \in FlowIds : ImportStep(f)

FlowSpec == FlowInit /\ [][FlowNext]_vars

\* setups, unloads and reloads of the entry, and the host's shutdown
ReloadNext ==
    \/ \E e \in EntryIds : SetupInstance(e, MaxReloadInst)
    \/ \E e \in EntryIds : UnloadEntry(e)
    \/ HomeAssistantStop
    \/ \E m \in Monitors : RunStopTask(m)
    \/ \E ent \in Entities, new_state \in {Absent, StateObj("Wet", NoAttributes)} :
          StateChanged(ent, new_state)
    \/ \E m \in Monitors : TimerTick(m)
    \/ \E t \in TaskIds, outcome \in Outcomes : PostAttempt(t, outcome)
    \/ \E t \in TaskIds : SleepEnds(t)

\* sensor.async_setup_entry: the platform constructs the sensor of the entry
SensorSetup(e) ==
    /\ e \in loaded
    /\ e \notin DOMAIN sensors
    /\ sensors' = [x \in DOMAIN sensors \cup {e} |->
                      IF x = e
                      THEN NewSensor(IF Loaded(e) THEN registry[RegistryGet(e)][2] ELSE 0,
                                     monitors)
                      ELSE sensors[x]]
    /\ UNCHANGED <<mon_vars_but_sensors, flow_vars>>

\* LekkageAlarmSensor.async_added_to_hass: async_dispatcher_connect
SensorAdded(e) ==
    /\ e \in DOMAIN sensors
    /\ ~sensors[e].connected
    /\ sensors' = [sensors EXCEPT ![e].connected = TRUE]
    /\ UNCHANGED <<mon_vars_but_sensors, flow_vars>>

\* async_setup_entry has returned: the sensor platform is set up
SetupDone(e) == e \in loaded /\ e \in DOMAIN sensors /\ sensors[e].connected

\* the integration with its sensor platform; the host unloads an entry only
\* after its setup has returned
SensorNext ==
    \/ \E e \in EntryIds : SetupEntry(e)
    \/ \E e \in EntryIds : SensorSetup(e)
    \/ \E e \in EntryIds : SensorAdded(e)
    \/ \E e \in EntryIds : SetupDone(e) /\ UnloadEntry(e)
    \/ HomeAssistantStop
    \/ \E m \in Monitors : RunStopTask(m)
    \/ \E ent \in Entities, new_state \in StateObjs \cup {Absent} : StateChanged(ent, new_state)
    \/ \E m \in Monitors : TimerTick(m)
    \/ \E service \in {"send_heartbeat", "send_state"}, ids \in SUBSET ServiceEntityIds :
          ServiceCall(service, ids)
    \/ \E t \in TaskIds, outcome \in Outcomes : PostAttempt(t, outcome)
    \/ \E t \in TaskIds : SleepEnds(t)

\* one entry that watches the state, with a heartbeat timer
LiveInit ==
    /\ entries = [e \in EntryIds |-> EntryDataOf(None, <<"Wet">>, DEFAULT_HEARTBEAT_INTERVAL)]
    /\ hass_states \in [Entities -> {Absent, StateObj("Wet", NoAttributes)}]
    /\ registry = <<>>
    /\ monitors = <<>>
    /\ state_listeners = {}
    /\ time_listeners = {}
    /\ stop_listeners = {}
    /\ stop_tasks = {}
    /\ ha_stop_fired = FALSE
    /\ unsub_calls = <<>>
    /\ tasks = <<>>
    /\ dispatched = <<>>
    /\ now = 1
    /\ loaded = {}
    /\ NoFlow
    /\ NoSensor

\* the event loop runs every task that can run: a request ends with a response
\* or an error (timeout=10), and asyncio.sleep(attempt) ends
LiveFairness ==
    \A t \in 1..MaxTasks :
        /\ WF_vars(t \in TaskIds /\ \E outcome \in Outcomes : PostAttempt(t, outcome))
        /\ WF_vars(t \in TaskIds /\ SleepEnds(t))

LiveSpec == LiveInit /\ [][Next]_vars /\ LiveFairness

ReloadSpec == LiveInit /\ [][ReloadNext]_vars

SensorSpec == LiveInit /\ [][SensorNext]_vars

(***************************************************************************)
(* Properties.                                                             *)
(***************************************************************************)

\* the sends a step creates
NewTasks == SubSeq(tasks', Len(tasks) + 1, Len(tasks'))

\* tasks only grows, and a finished send never changes again
TasksKept == /\ Len(tasks') >= Len(tasks)
             /\ \A t \in TaskIds : Finished(tasks[t]) => tasks'[t] = tasks[t]

\* the monitor is in the registry
Registered(m) == \E i \in 1..Len(registry) : registry[i][2] = m

\* async_stop() has run on monitor m: its entry was unloaded, or the task the
\* shutdown hook created has run (every monitor is started and registered
\* when it is constructed, and none is constructed after the host's stop)
StopHasRun(m) ==
    \/ ~Registered(m)
    \/ ha_stop_fired /\ m \notin stop_tasks

Running(m) == ~StopHasRun(m)

\* the ContactRecord of a monitor
ContactRecord(mon) ==
    <<mon.last_contact_time, mon.last_event_time, mon.last_event_value,
      mon.last_heartbeat_time>>

AllStateObjs == StateObjs \cup {Absent}

(*-------------------------------------------------------------------------*)
\* C1: for every state-change notification of the watched entity while the
\* monitor is running, an event send is started if and only if the new value
\* is present, lower-case(new) differs from lower-case(old) (an absent old
\* value equals no new value) and the trigger set is empty or contains
\* lower-case(new); the send carries lower-case(new), and a notification
\* whose new state or new value is absent starts no send.
C1_NewValue(mon, new_state) ==
    IF new_state.exists THEN WatchedValue(mon, new_state) ELSE None

C1_Qualifies(mon, old_state, new_state) ==
    LET new == C1_NewValue(mon, new_state)
        old == C1_NewValue(mon, old_state)
    IN  /\ new # None
        /\ old = None \/ Lower(new) # Lower(old)
        /\ mon.trigger_states = <<>>
           \/ \E i \in 1..Len(mon.trigger_states) : mon.trigger_states[i] = Lower(new)

C1_SendsOf(m, sends) == SelectSeq(sends, LAMBDA s : s.mon = m)

C1_Step ==
    \A ent \in Entities, new_state \in AllStateObjs :
        StateChanged(ent, new_state) =>
            \A m \in Monitors :
                (Running(m) /\ monitors[m].entity_id = ent) =>
                    LET mine == C1_SendsOf(m, NewTasks)
                    IN  IF C1_Qualifies(monitors[m], hass_states[ent], new_state)
                        THEN /\ Len(mine) = 1
                             /\ mine[1].kind = "event"
                             /\ mine[1].pc = "post"
                             /\ mine[1].payload.new_state
                                  = Lower(C1_NewValue(monitors[m], new_state))
                        ELSE mine = <<>>

C1_ListenerFiresIff == [][C1_Step]_vars

\* a listener's send for a value that differs from the trigger state in case
C1_Witness ==
    \E t \in TaskIds :
        /\ tasks[t].origin = "listener"
        /\ tasks[t].payload.new_state = "wet"
        /\ monitors[tasks[t].mon].trigger_states = <<"wet">>
        /\ hass_states[monitors[tasks[t].mon].entity_id].state = "Wet"

(*-------------------------------------------------------------------------*)
\* C2: a post whose every attempt fails, by any mix of non-200 status,
\* network error and timeout, makes exactly 3 attempts, never a fourth, and
\* then returns failure; the three kinds of failure are counted and retried
\* in the same way.
C2_FailureKinds == {"status", "timeout", "neterr"}

\* every attempt so far has failed in one of the three ways (each such
\* failure is followed by a sleep)
C2_AllFailed(send) == Len(send.waits) = send.posts

C2_State(send) ==
    /\ send.posts <= 3
    /\ C2_AllFailed(send) =>
          /\ send.pc \in {"post", "sleep", "done_fail"}
          /\ send.pc = "done_fail" => send.posts = 3
          /\ send.posts = 3 => send.pc \in {"sleep", "done_fail"}
    /\ send.pc = "done_fail" => C2_AllFailed(send)

C2_Step ==
    /\ \A t \in TaskIds, kind \in C2_FailureKinds :
          PostAttempt(t, kind) =>
              /\ tasks'[t].posts = tasks[t].posts + 1
              /\ tasks'[t].attempt = tasks[t].attempt
              /\ tasks'[t].pc = "sleep"
    /\ \A t \in TaskIds :
          SleepEnds(t) =>
              IF tasks[t].posts < 3
              THEN tasks'[t].pc = "post" /\ tasks'[t].attempt = tasks[t].attempt + 1
              ELSE tasks'[t].pc = "done_fail"
    /\ \A t \in 1..Len(tasks') : C2_State(tasks'[t])

C2_ThreeAttempts == [][C2_Step]_vars

C2_Witness ==
    \E t \in TaskIds :
        tasks[t].pc = "done_fail" /\ tasks[t].posts = 3

(*-------------------------------------------------------------------------*)
\* C3: the ContactRecord changes, and an update is published, only in the
\* completion step of a send whose post returned success on a status-200
\* response; the step in which a send ends in failure changes no
\* ContactRecord and publishes nothing.
C3_Completes(t) ==
    /\ tasks[t].pc = "post"
    /\ tasks'[t].pc = "done_ok"
    /\ tasks'[t].status = 200

C3_Step ==
    /\ \A m \in Monitors :
          ContactRecord(monitors'[m]) # ContactRecord(monitors[m]) =>
              \E t \in TaskIds : tasks[t].mon = m /\ C3_Completes(t)
    /\ dispatched' # dispatched => \E t \in TaskIds : C3_Completes(t)
    /\ \A t \in TaskIds :
          (~Finished(tasks[t]) /\ tasks'[t].pc \in {"done_fail", "raised"}) =>
              /\ \A m \in Monitors : ContactRecord(monitors'[m]) = ContactRecord(monitors[m])
              /\ dispatched' = dispatched
    /\ \A t \in TaskIds :
          (tasks[t].pc = "post" /\ tasks'[t].pc = "sleep") =>
              /\ \A m \in Monitors : ContactRecord(monitors'[m]) = ContactRecord(monitors[m])
              /\ dispatched' = dispatched

C3_ContactOnlyOnSuccess == [][C3_Step]_vars

\* an event send and a heartbeat send have failed and nothing was recorded
C3_Witness ==
    \E t \in TaskIds :
        /\ tasks[t].pc = "done_fail"
        /\ ContactRecord(monitors[tasks[t].mon]) = <<NoTime, NoTime, None, NoTime>>
        /\ dispatched = <<>>

(*-------------------------------------------------------------------------*)
\* C4: when the first attempt of an event send is answered with status 200,
\* exactly one POST is made and no retry follows, the ContactRecord's contact
\* time, event time and event value are set, and the updated contact
\* timestamp is published exactly once for that send.
C4_DoneOk == SelectSeq(tasks, LAMBDA s : s.pc = "done_ok")

C4_Step ==
    /\ \A t \in TaskIds :
          (tasks[t].kind = "event" /\ tasks[t].attempt = 1 /\ PostAttempt(t, "200")) =>
              LET mon == monitors'[tasks[t].mon]
              IN  /\ tasks'[t].pc = "done_ok"
                  /\ tasks'[t].posts = 1
                  /\ tasks'[t].waits = <<>>
                  /\ mon.last_contact_time = now
                  /\ mon.last_contact_time # NoTime
                  /\ mon.last_event_time = mon.last_contact_time
                  /\ mon.last_event_value = tasks[t].payload.new_state
                  /\ dispatched' = Append(dispatched,
                         [signal |-> mon.entry_id, time |-> mon.last_contact_time])
    /\ TasksKept
    /\ (Len(dispatched) = Len(C4_DoneOk))'

C4_FirstAttemptSuccess == [][C4_Step]_vars

C4_Witness ==
    \E t \in TaskIds :
        /\ tasks[t].kind = "event"
        /\ tasks[t].pc = "done_ok"
        /\ tasks[t].posts = 1
        /\ monitors[tasks[t].mon].last_event_value = tasks[t].payload.new_state
        /\ monitors[tasks[t].mon].last_contact_time # NoTime
        /\ Len(dispatched) = 1

(*-------------------------------------------------------------------------*)
\* C5: start() on a monitor whose watched entity has a value that matches the
\* trigger set starts exactly one event send carrying that value lower-cased,
\* in the step of start() itself; if the entity or its watched value is
\* absent, or the value is not in a non-empty trigger set, it starts none.
C5_Step ==
    \A e \in EntryIds :
        SetupEntry(e) =>
            LET m == Len(monitors) + 1
                mon == monitors'[m]
                value == C1_NewValue(mon, hass_states[mon.entity_id])
                matches == /\ value # None
                           /\ mon.trigger_states = <<>>
                              \/ \E i \in 1..Len(mon.trigger_states) :
                                    mon.trigger_states[i] = Lower(value)
            IN  IF matches
                THEN /\ Len(NewTasks) = 1
                     /\ NewTasks[1].mon = m
                     /\ NewTasks[1].kind = "event"
                     /\ NewTasks[1].pc = "post"
                     /\ NewTasks[1].posts = 0
                     /\ NewTasks[1].payload.new_state = Lower(value)
                ELSE NewTasks = <<>>

C5_InitialEvent == [][C5_Step]_vars

C5_Witness ==
    \E t \in TaskIds :
        /\ tasks[t].origin = "start"
        /\ tasks[t].payload.new_state = "wet"
        /\ monitors[tasks[t].mon].trigger_states = <<"wet">>

(*-------------------------------------------------------------------------*)
\* C6: stop() is idempotent: after every stop() both subscriptions are
\* absent, a stop() on a monitor already stopped (or never started) changes
\* nothing, and each subscription is unregistered at most once.
C6_StopStep(m) ==
    \/ \E e \in EntryIds : UnloadEntry(e) /\ registry[RegistryGet(e)][2] = m
    \/ RunStopTask(m)

C6_Step ==
    /\ \A m \in Monitors :
          C6_StopStep(m) =>
              /\ ~monitors'[m].unsub_state
              /\ ~monitors'[m].unsub_heartbeat
              /\ m \notin state_listeners'
              /\ m \notin time_listeners'
              /\ unsub_calls'[m].state <= 1
              /\ unsub_calls'[m].heartbeat <= 1
              /\ StopHasRun(m) =>
                    /\ monitors' = monitors
                    /\ unsub_calls' = unsub_calls
                    /\ state_listeners' = state_listeners
                    /\ time_listeners' = time_listeners
                    /\ tasks' = tasks
    /\ \A e \in EntryIds :
          LET fresh == NewMonitor(e, entries[e])
              stopped == async_stop(async_start(fresh))
          IN  /\ async_stop(fresh) = fresh
              /\ stop_calls(fresh) = {}
              /\ async_stop(stopped) = stopped
              /\ stop_calls(stopped) = {}

C6_StopIdempotent == [][C6_Step]_vars

\* the entry was unloaded and the shutdown hook's task has run: two stop()
C6_Witness ==
    /\ Len(monitors) = 1
    /\ registry = <<>>
    /\ ha_stop_fired
    /\ stop_tasks = {}
    /\ unsub_calls[1] = [state |-> 1, heartbeat |-> 1]

(*-------------------------------------------------------------------------*)
\* C7: after stop() has run on a monitor, no state-change notification of the
\* watched entity and no timer tick starts a new send for that monitor.
C7_Step ==
    /\ \A m \in Monitors :
          (/\ StopHasRun(m)
           /\ \/ \E ent \in Entities, new_state \in AllStateObjs :
                    StateChanged(ent, new_state)
              \/ \E m2 \in Monitors : TimerTick(m2)) =>
              \A i \in 1..Len(NewTasks) : NewTasks[i].mon # m
    /\ \A m \in Monitors :
          \A i \in 1..Len(NewTasks) :
              (NewTasks[i].mon = m /\ NewTasks[i].origin \in {"listener", "timer"}) =>
                  ~StopHasRun(m)
    /\ (\A m \in Monitors :
           StopHasRun(m) => m \notin state_listeners /\ m \notin time_listeners)'

C7_NoSendAfterStop == [][C7_Step]_vars

\* the watched state became a trigger state after the monitor was stopped,
\* and nothing was sent
C7_Witness ==
    /\ Len(monitors) = 1
    /\ StopHasRun(1)
    /\ monitors[1].trigger_states = <<"wet">>
    /\ monitors[1].attribute = None
    /\ hass_states[monitors[1].entity_id].state = "Wet"
    /\ tasks = <<>>

(*-------------------------------------------------------------------------*)
\* C8: while a monitor with a heartbeat interval greater than zero is
\* running, its timer is registered and every tick starts exactly one
\* heartbeat send; the payload has type "heartbeat" and carries under
\* current_state the value the watched state or attribute has at the tick,
\* and has no current_state when the entity or the value is absent.
C8_Step ==
    /\ \A m \in Monitors :
          TimerTick(m) =>
              LET value == C1_NewValue(monitors[m], hass_states[monitors[m].entity_id])
              IN  /\ Len(NewTasks) = 1
                  /\ NewTasks[1].mon = m
                  /\ NewTasks[1].kind = "heartbeat"
                  /\ NewTasks[1].pc = "post"
                  /\ NewTasks[1].payload.type = "heartbeat"
                  /\ IF value # None
                     THEN /\ "current_state" \in DOMAIN NewTasks[1].payload
                          /\ NewTasks[1].payload.current_state = value
                     ELSE "current_state" \notin DOMAIN NewTasks[1].payload
    /\ (\A m \in Monitors :
           (Running(m) /\ monitors[m].heartbeat_interval > 0) => m \in time_listeners)'

C8_HeartbeatPerTick == [][C8_Step]_vars

\* a tick's heartbeat carries "Wet" as it is, not lower-cased
C8_Witness ==
    \E t \in TaskIds :
        /\ tasks[t].origin = "timer"
        /\ tasks[t].kind = "heartbeat"
        /\ "current_state" \in DOMAIN tasks[t].payload
        /\ tasks[t].payload.current_state = "Wet"

(*-------------------------------------------------------------------------*)
\* C9: a monitor with heartbeat interval zero registers no timer: it has no
\* heartbeat send but those of the send_heartbeat command, and its
\* state-change listener is registered while it runs.
C9_NoTimerAtZero ==
    \A m \in Monitors :
        monitors[m].heartbeat_interval = 0 =>
            /\ m \notin time_listeners
            /\ ~monitors[m].unsub_heartbeat
            /\ unsub_calls[m].heartbeat = 0
            /\ \A t \in TaskIds :
                  (tasks[t].mon = m /\ tasks[t].kind = "heartbeat") =>
                      tasks[t].origin = "send_heartbeat"
            /\ Running(m) => m \in state_listeners /\ monitors[m].unsub_state

C9_Witness ==
    \E t1, t2 \in TaskIds :
        /\ monitors[tasks[t1].mon].heartbeat_interval = 0
        /\ tasks[t1].kind = "heartbeat"
        /\ tasks[t2].mon = tasks[t1].mon
        /\ tasks[t2].origin = "listener"

(*-------------------------------------------------------------------------*)
\* C10: send_current_state() on a monitor whose watched entity has a present
\* value starts exactly one event send with the lower-cased live value,
\* whatever the trigger set holds and whatever was observed before.
C10_Sends(m) == ServeTargets("send_state", <<m>>)

\* in a state: what send_current_state() starts on a registered monitor
C10_State ==
    \A m \in Monitors :
        LET value == C1_NewValue(monitors[m], hass_states[monitors[m].entity_id])
        IN  (Registered(m) /\ value # None) =>
                /\ Len(C10_Sends(m)) = 1
                /\ C10_Sends(m)[1].mon = m
                /\ C10_Sends(m)[1].kind = "event"
                /\ C10_Sends(m)[1].pc = "post"
                /\ C10_Sends(m)[1].payload.new_state = Lower(value)

\* in a step: the send_state command starts that send on its first target
C10_Step ==
    /\ \A ids \in SUBSET ServiceEntityIds :
          (/\ Len(tasks') > Len(tasks)
           /\ Targets(registry, ids) # <<>>
           /\ ServiceCall("send_state", ids)) =>
              LET m == Head(Targets(registry, ids))
                  value == C1_NewValue(monitors[m], hass_states[monitors[m].entity_id])
              IN  value # None =>
                      /\ Len(NewTasks) = 1
                      /\ NewTasks[1].mon = m
                      /\ NewTasks[1].kind = "event"
                      /\ NewTasks[1].pc = "post"
                      /\ NewTasks[1].payload.new_state = Lower(value)
    /\ C10_State'

C10_SendCurrentState == [][C10_Step]_vars

\* a value outside the trigger set was sent on command, after the same
\* monitor's listener had sent a trigger state
C10_Witness ==
    \E t1, t2 \in TaskIds :
        /\ tasks[t2].origin = "send_state"
        /\ monitors[tasks[t2].mon].trigger_states = <<"wet">>
        /\ tasks[t2].payload.new_state = "dry"
        /\ tasks[t1].mon = tasks[t2].mon
        /\ tasks[t1].origin = "listener"

(*-------------------------------------------------------------------------*)
\* C11: send_current_state() on a monitor whose entity is not found, or
\* whose watched attribute has no value, starts no send (no POST), leaves the
\* ContactRecord alone and publishes nothing; the command goes on to the
\* other monitors it addresses, before and after that monitor.
C11_Value(m) == C1_NewValue(monitors[m], hass_states[monitors[m].entity_id])

C11_Sendable(targets) == SelectSeq(targets, LAMBDA m : C11_Value(m) # None)

\* the targets after monitor m (a monitor is a target once)
C11_After(targets, m) ==
    LET i == CHOOSE k \in 1..Len(targets) : targets[k] = m
    IN  SubSeq(targets, i + 1, Len(targets))

\* sends is what the send_state handler starts next when targets remain:
\* nothing when none of them has a value, else one event send for the first
\* that has one, the monitors after it still to be served
C11_Starts(sends, targets) ==
    LET able == C11_Sendable(targets)
    IN  IF able = <<>> THEN sends = <<>>
        ELSE /\ Len(sends) = 1
             /\ sends[1].mon = Head(able)
             /\ sends[1].kind = "event"
             /\ sends[1].posts = 0
             /\ sends[1].payload.new_state = Lower(C11_Value(Head(able)))
             /\ sends[1].next = C11_After(targets, Head(able))

C11_State ==
    \A ids \in SUBSET ServiceEntityIds :
        C11_Starts(ServeTargets("send_state", Targets(registry, ids)),
                   Targets(registry, ids))

C11_Step ==
    /\ \A ids \in SUBSET ServiceEntityIds :
          (Len(tasks') > Len(tasks) /\ ServiceCall("send_state", ids)) =>
              /\ C11_Starts(NewTasks, Targets(registry, ids))
              /\ \A t \in TaskIds : tasks'[t] = tasks[t]
              /\ \A m \in Monitors : ContactRecord(monitors'[m]) = ContactRecord(monitors[m])
              /\ dispatched' = dispatched
    /\ \A t \in TaskIds :
          (/\ tasks[t].origin = "send_state"
           /\ ~Finished(tasks[t])
           /\ tasks'[t].pc \in {"done_ok", "done_fail"}) =>
              C11_Starts(NewTasks, tasks[t].next)

C11_MissingEntityNoOp == []C11_State /\ [][C11_Step]_vars

\* two registered monitors watch the same entity, so a command addresses
\* both or none: the first has no value and got no send, the second got one
C11_Witness ==
    /\ Registered(1) /\ Registered(2)
    /\ monitors[1].entity_id = monitors[2].entity_id
    /\ C11_Value(1) = None
    /\ \A t \in TaskIds : tasks[t].origin = "send_state" => tasks[t].mon = 2
    /\ \E t \in TaskIds :
          /\ tasks[t].origin = "send_state"
          /\ tasks[t].payload.new_state = "wet"
          /\ tasks[t].pc = "done_ok"
          /\ ContactRecord(monitors[1]) = <<NoTime, NoTime, None, NoTime>>

(*-------------------------------------------------------------------------*)
\* C12: a command given entity ids acts on exactly the registered monitors
\* whose entity id is listed, and given none on every registered monitor,
\* once each and in turn: when its send for one monitor has ended, the
\* command serves the next; monitors outside that set get no send.
C12_Registered == [i \in 1..Len(registry) |-> registry[i][2]]

C12_Targets(ids) ==
    SelectSeq(C12_Registered,
              LAMBDA m : ids = {} \/ monitors[m].entity_id \in ids)

\* sends is what the command starts next when targets remain
C12_Starts(service, sends, targets) ==
    IF service = "send_state" THEN C11_Starts(sends, targets)
    ELSE IF targets = <<>> THEN sends = <<>>
         ELSE /\ Len(sends) = 1
              /\ sends[1].mon = Head(targets)
              /\ sends[1].kind = "heartbeat"
              /\ sends[1].next = Tail(targets)

C12_Step ==
    /\ \A service \in {"send_heartbeat", "send_state"}, ids \in SUBSET ServiceEntityIds :
          (Len(tasks') > Len(tasks) /\ ServiceCall(service, ids)) =>
              C12_Starts(service, NewTasks, C12_Targets(ids))
    /\ \A t \in TaskIds :
          (/\ tasks[t].origin \in {"send_heartbeat", "send_state"}
           /\ ~Finished(tasks[t])
           /\ Finished(tasks'[t])) =>
              C12_Starts(tasks[t].origin, NewTasks, tasks[t].next)

C12_EachTargetOnce == [][C12_Step]_vars

(*-------------------------------------------------------------------------*)
\* C16: every error during a delivery (a non-200 status, a network error, a
\* timeout, a failure while the response body is read) makes the post return
\* False: no send ends with an exception leaving the handler.
C16_NoErrorPropagates ==
    \A t \in TaskIds :
        /\ tasks[t].pc # "raised"
        /\ Finished(tasks[t]) => tasks[t].pc \in {"done_ok", "done_fail"}

(*-------------------------------------------------------------------------*)
\* C17: the registry holds an entry id exactly while the entry is set up:
\* setup inserts the started monitor under the entry id, unload removes the
\* entry and stops that monitor, and no other step changes the registry.
C17_State ==
    /\ \A e \in EntryIds : Loaded(e) <=> e \in loaded
    /\ \A i, j \in 1..Len(registry) : registry[i][1] = registry[j][1] => i = j
    /\ \A i \in 1..Len(registry) :
          /\ registry[i][2] \in Monitors
          /\ monitors[registry[i][2]].entry_id = registry[i][1]

C17_Inserted(e) ==
    LET m == Len(monitors) + 1
    IN  /\ e \in loaded' \ loaded
        /\ registry' = Append(registry, <<e, m>>)
        /\ Len(monitors') = m
        /\ monitors'[m].unsub_state
        /\ m \in state_listeners'

C17_Removed(e) ==
    \E i \in 1..Len(registry) :
        LET m == registry[i][2]
        IN  /\ registry[i][1] = e
            /\ e \in loaded \ loaded'
            /\ registry' = SelectSeq(registry, LAMBDA p : p # registry[i])
            /\ ~monitors'[m].unsub_state
            /\ ~monitors'[m].unsub_heartbeat
            /\ m \notin state_listeners'
            /\ m \notin time_listeners'

C17_Step ==
    /\ (registry' # registry \/ loaded' # loaded) =>
           \E e \in EntryIds : C17_Inserted(e) \/ C17_Removed(e)
    /\ C17_State'

C17_RegistryLifecycle == [][C17_Step]_vars

\* the shutdown hook's task has stopped the monitor, a command has sent for
\* it, and its entry is still in the registry
C17_Witness ==
    /\ ha_stop_fired
    /\ stop_tasks = {}
    /\ loaded = {"e1"}
    /\ registry = << <<"e1", 1>> >>
    /\ ~monitors[1].unsub_state
    /\ \E t \in TaskIds : tasks[t].origin = "send_heartbeat" /\ Finished(tasks[t])

(*-------------------------------------------------------------------------*)
\* C18: within one post the back-off waits occur only between attempts: at
\* most two, of 1 second after the first failed attempt and 2 seconds after
\* the second; after the third failed attempt failure is returned without a
\* wait.
C18_WaitsBetweenAttempts ==
    \A t \in TaskIds :
        /\ Len(tasks[t].waits) <= 2
        /\ \A i \in 1..Len(tasks[t].waits) : tasks[t].waits[i] = i
        /\ tasks[t].pc = "sleep" => tasks[t].posts < 3

(*-------------------------------------------------------------------------*)
\* C19: the last contact time is absent exactly when the last event time and
\* the last heartbeat time are both absent, and otherwise is the later of
\* the two; the send that completes last writes it, in whichever order the
\* sends were issued.
C19_Later(a, b) == IF a >= b THEN a ELSE b

C19_State ==
    \A m \in Monitors :
        LET mon == monitors[m]
        IN  /\ mon.last_contact_time = NoTime
                <=> (mon.last_event_time = NoTime /\ mon.last_heartbeat_time = NoTime)
            /\ mon.last_contact_time
                = C19_Later(mon.last_event_time, mon.last_heartbeat_time)

C19_Step ==
    /\ \A t \in TaskIds :
          (tasks[t].pc = "post" /\ tasks'[t].pc = "done_ok") =>
              LET before == monitors[tasks[t].mon]
                  after == monitors'[tasks[t].mon]
              IN  /\ after.last_contact_time = now
                  /\ after.last_contact_time > before.last_contact_time
                  /\ IF tasks[t].kind = "event"
                     THEN /\ after.last_event_time = after.last_contact_time
                          /\ after.last_heartbeat_time = before.last_heartbeat_time
                     ELSE /\ after.last_heartbeat_time = after.last_contact_time
                          /\ after.last_event_time = before.last_event_time
    /\ C19_State'

C19_LastCompletedWins == [][C19_Step]_vars

\* the event send was issued first and completed last
C19_Witness ==
    \E t1, t2 \in TaskIds :
        LET mon == monitors[tasks[t1].mon]
        IN  /\ t1 < t2
            /\ tasks[t1].mon = tasks[t2].mon
            /\ tasks[t1].kind = "event" /\ tasks[t1].pc = "done_ok"
            /\ tasks[t2].kind = "heartbeat" /\ tasks[t2].pc = "done_ok"
            /\ mon.last_heartbeat_time # NoTime
            /\ mon.last_heartbeat_time < mon.last_event_time
            /\ mon.last_contact_time = mon.last_event_time


\* ---------------------------------------------------------------------------
\* C13: pairing succeeds only on a status-200 response whose body has a token,
\* and then the stored configuration holds exactly that token (the settings
\* step keeps it for the entry the device step creates, the import step
\* creates the entry with it); on a request error, any other status or a body
\* lacking a token the step reports pair_failed and creates no entry.
C13_Success(outcome) ==
    /\ outcome # "error"
    /\ PairStatus(outcome) = 200
    /\ PairBodyToken(outcome) \notin {None, ""}

C13_Requests(f) == {i \in 1..Len(pair_log) : pair_log[i].flow = f}

C13_LastRequest(f) ==
    CHOOSE i \in C13_Requests(f) : \A j \in C13_Requests(f) : j <= i

C13_Answered(f) ==
    \E i \in C13_Requests(f) :
        pair_log[i].response = "pending" /\ pair_log'[i].response # "pending"

C13_State ==
    \A f \in FlowIds :
        (flows[f].pc = "created" /\ C13_Requests(f) # {}) =>
            LET response == pair_log[C13_LastRequest(f)].response
                entry == config_entries[flows[f].result]
            IN  /\ flows[f].source = "import" => C13_Success(response)
                /\ C13_Success(response) => entry.data.token = PairBodyToken(response)

C13_Step ==
    \A f \in FlowIds :
        C13_Answered(f) =>
            LET outcome == pair_log'[C13_LastRequest(f)].response
                n == Len(config_entries)
            IN  IF C13_Success(outcome)
                THEN IF flows[f].source = "user"
                     THEN /\ flows'[f].pc = "device_form"
                          /\ flows'[f].settings.token = PairBodyToken(outcome)
                          /\ flows'[f].cached_token = PairBodyToken(outcome)
                          /\ config_entries' = config_entries
                     ELSE /\ flows'[f].pc = "created"
                          /\ Len(config_entries') = n + 1
                          /\ SubSeq(config_entries', 1, n) = config_entries
                          /\ config_entries'[n + 1].data.token = PairBodyToken(outcome)
                ELSE /\ config_entries' = config_entries
                     /\ flows'[f].pc \in {"settings_form", "aborted"}
                     /\ flows'[f].error = "pair_failed"

C13_PairingOutcome == []C13_State /\ [][C13_Step]_vars

\* an import flow paired and created its entry with the token of the response,
\* and a user flow whose pairing got status 404 is back at the settings form
C13_Witness ==
    \E f, g \in FlowIds :
        /\ flows[f].source = "import" /\ flows[f].pc = "created"
        /\ C13_Requests(f) # {}
        /\ pair_log[C13_LastRequest(f)].response = "200_token"
        /\ config_entries[flows[f].result].data.token = PairedToken
        /\ flows[g].source = "user" /\ flows[g].pc = "settings_form"
        /\ C13_Requests(g) # {}
        /\ pair_log[C13_LastRequest(g)].response = "404_token"
        /\ Len(config_entries) = 1


\* ---------------------------------------------------------------------------
\* C14: when an existing entry has the same collector base URL (trailing
\* slashes removed) and a non-empty token, submitting the settings form, with
\* a pairing code or without one, makes no request to the pairing endpoint and
\* goes on to the device step with that token, which the entry the flow then
\* creates stores.
C14_Tokens(url) ==
    {config_entries[i].data.token :
        i \in {j \in 1..Len(config_entries) :
                 /\ RstripSlash(config_entries[j].data.collector_url) = RstripSlash(url)
                 /\ config_entries[j].data.token \notin {None, ""}}}

C14_State ==
    \A f \in FlowIds, url \in UrlInputs, code \in CodeInputs :
        (flows[f].pc = "settings_form" /\ C14_Tokens(url) # {}) =>
            ENABLED (/\ SubmitSettings(f, url, code)
                     /\ pair_log' = pair_log
                     /\ flows'[f].pc = "device_form"
                     /\ flows'[f].cached_token \in C14_Tokens(url))

C14_Step ==
    \A f \in FlowIds :
        /\ (/\ flows[f].pc = "settings_form"
            /\ Len(pair_log') > Len(pair_log)
            /\ pair_log'[Len(pair_log')].flow = f) =>
              C14_Tokens(pair_log'[Len(pair_log')].url[1]) = {}
        /\ (/\ flows[f].pc = "settings_form"
            /\ flows'[f].pc = "device_form"
            /\ C14_Tokens(flows'[f].collector_url) # {}) =>
              /\ pair_log' = pair_log
              /\ flows'[f].cached_token \in C14_Tokens(flows'[f].collector_url)
              /\ flows'[f].settings.token = flows'[f].cached_token
        /\ (flows[f].pc = "device_form" /\ flows'[f].pc = "created") =>
              /\ Len(config_entries') = Len(config_entries) + 1
              /\ config_entries'[flows'[f].result].data.token = flows[f].cached_token
              /\ config_entries'[flows'[f].result].data.collector_url
                    = flows[f].settings.collector_url

C14_CachedTokenReused == []C14_State /\ [][C14_Step]_vars

\* a user flow that sent no pairing request created a second entry for the
\* same collector, storing the token of the first
C14_Witness ==
    \E f, g \in FlowIds :
        /\ f # g
        /\ flows[f].pc = "created" /\ flows[g].pc = "created"
        /\ flows[g].source = "user"
        /\ flows[g].result > flows[f].result
        /\ C13_Requests(g) = {}
        /\ config_entries[flows[g].result].data.token
              = config_entries[flows[f].result].data.token
        /\ config_entries[flows[g].result].data.collector_url
              = config_entries[flows[f].result].data.collector_url


\* ---------------------------------------------------------------------------
\* C15: with neither a token (in the YAML item, or stored in an entry for the
\* collector URL) nor a pairing code, setup goes no further: the settings form
\* comes back with missing_pairing_code, a YAML holding such an item is
\* rejected and starts no import flow; no pairing request is made and no entry
\* is created, and every entry that exists holds a non-empty token.
C15_NoAuth(item) ==
    item.token \in {None, ""} /\ item.pairing_code \in {None, ""}

C15_Refused(f) ==
    /\ pair_log' = pair_log
    /\ config_entries' = config_entries
    /\ flows'[f].pc = "settings_form"
    /\ flows'[f].error = "missing_pairing_code"

C15_Settings ==
    \A f \in FlowIds, url \in UrlInputs, code \in CodeInputs \cap {None, ""} :
        (flows[f].pc = "settings_form" /\ C14_Tokens(url) = {}) =>
            /\ ENABLED (SubmitSettings(f, url, code) /\ C15_Refused(f))
            /\ ~ENABLED (SubmitSettings(f, url, code) /\ ~C15_Refused(f))

C15_Yaml ==
    (\E i \in 1..Len(yaml) : C15_NoAuth(yaml[i])) =>
        /\ setup_result # "ok"
        /\ \A f \in FlowIds : flows[f].source # "import"
        /\ \A i \in 1..Len(config_entries) : config_entries[i].source # "import"
        /\ \A i \in 1..Len(pair_log) : flows[pair_log[i].flow].source # "import"

C15_TokenOrCodeRequired ==
    /\ \A i \in 1..Len(config_entries) : config_entries[i].data.token \notin {None, ""}
    /\ C15_Settings
    /\ C15_Yaml

\* the YAML item with neither token nor code was rejected, and a user flow
\* that gave no code is back at the settings form; no request, no entry
C15_Witness ==
    /\ \E i \in 1..Len(yaml) : C15_NoAuth(yaml[i])
    /\ setup_result = "invalid"
    /\ \E f \in FlowIds : flows[f].pc = "settings_form"
                          /\ flows[f].error = "missing_pairing_code"
    /\ pair_log = <<>>
    /\ config_entries = <<>>


\* ---------------------------------------------------------------------------
\* C20: stop() does not cancel a send that is in flight or waiting in
\* back-off: the step that stops the monitor leaves every send as it is, the
\* send goes on and eventually finishes, with at most three requests, and an
\* attempt that gets status 200 after the stop still writes the ContactRecord
\* of the stopped monitor and publishes the update.
C20_Stops(m) == ~StopHasRun(m) /\ StopHasRun(m)'

C20_Step ==
    /\ (\E m \in Monitors : C20_Stops(m)) => tasks' = tasks
    /\ \A t \in TaskIds :
          (/\ StopHasRun(tasks[t].mon)
           /\ tasks[t].pc = "post"
           /\ tasks'[t].pc = "done_ok") =>
              LET m == tasks[t].mon
              IN  /\ tasks'[t].status = 200
                  /\ monitors'[m].last_contact_time = now
                  /\ ContactRecord(monitors'[m]) # ContactRecord(monitors[m])
                  /\ dispatched' = Append(dispatched, Signal(monitors'[m]))

C20_State ==
    \A t \in TaskIds : tasks[t].posts <= 3 /\ tasks[t].attempt <= 3

C20_Finishes ==
    \A t \in 1..MaxTasks :
        (t \in TaskIds /\ StopHasRun(tasks[t].mon) /\ ~Finished(tasks[t]))
            ~> (t \in TaskIds /\ Finished(tasks[t]))

C20_StopKeepsSends == []C20_State /\ [][C20_Step]_vars /\ C20_Finishes

\* the entry was unloaded, which stopped the monitor, while one of its sends
\* was waiting in back-off and another was in flight; neither has finished
C20_Witness ==
    \E t, u \in TaskIds :
        /\ tasks[t].mon = tasks[u].mon
        /\ ~Registered(tasks[t].mon)
        /\ ~monitors[tasks[t].mon].unsub_state
        /\ tasks[t].pc = "sleep" /\ tasks[t].posts = 1
        /\ tasks[u].pc = "post" /\ tasks[u].posts = 0


\* ---------------------------------------------------------------------------
\* C21: every qualifying state-change notification starts its own event send,
\* also while an earlier send of the same monitor is in flight or retrying:
\* the sends that exist are left as they are, the new send is at its first
\* request at once, and the number of sends started by notifications grows by
\* the number of qualifying notifications and by nothing else.
C21_FromListener(ts) == {t \in 1..Len(ts) : ts[t].origin = "listener"}

C21_Qualifying ==
    {m \in Monitors :
        /\ Running(m)
        /\ C1_Qualifies(monitors[m], hass_states[monitors[m].entity_id],
                        hass_states'[monitors[m].entity_id])}

C21_Step ==
    /\ Cardinality(C21_FromListener(tasks'))
          = Cardinality(C21_FromListener(tasks)) + Cardinality(C21_Qualifying)
    /\ C21_Qualifying # {} =>
          /\ \A t \in TaskIds : tasks'[t] = tasks[t]
          /\ \A m \in C21_Qualifying :
                \E t \in C21_FromListener(tasks') \ TaskIds :
                    /\ tasks'[t].mon = m
                    /\ tasks'[t].kind = "event"
                    /\ tasks'[t].pc = "post" /\ tasks'[t].posts = 0
                    /\ tasks'[t].attempt = 1

C21_IndependentSends == [][C21_Step]_vars

\* a notification started a send while the send of an earlier notification of
\* the same monitor was waiting in back-off
C21_Witness ==
    \E t, u \in TaskIds :
        /\ t < u
        /\ tasks[t].mon = tasks[u].mon
        /\ tasks[t].origin = "listener" /\ tasks[u].origin = "listener"
        /\ tasks[t].pc = "sleep"
        /\ tasks[u].pc = "post" /\ tasks[u].posts = 0


\* ---------------------------------------------------------------------------
\* C22: an instance goes Stopped, Running, Stopped and never back.  A setup of
\* an entry constructs a new instance, starts it and registers it; no step
\* subscribes an instance that exists already, hands it a shutdown hook again,
\* sets its handles again or puts it back into the registry, so start() runs
\* once on an instance, and an instance whose stop() has run is not Running
\* again, over setups, unloads, reloads and the host's shutdown.
C22_Fresh(mon) ==
    /\ mon.unsub_state
    /\ ContactRecord(mon) = <<NoTime, NoTime, None, NoTime>>

C22_Step ==
    /\ \A m \in Monitors :
          /\ m \in state_listeners' => m \in state_listeners
          /\ m \in time_listeners' => m \in time_listeners
          /\ m \in stop_listeners' => m \in stop_listeners
          /\ monitors'[m].unsub_state => monitors[m].unsub_state
          /\ monitors'[m].unsub_heartbeat => monitors[m].unsub_heartbeat
          /\ Registered(m)' => Registered(m)
          /\ StopHasRun(m) => StopHasRun(m)'
    /\ \A e \in EntryIds :
          (e \notin loaded /\ e \in loaded') =>
              LET m == Len(monitors) + 1
              IN  /\ Len(monitors') = m
                  /\ monitors'[m].entry_id = e
                  /\ C22_Fresh(monitors'[m])
                  /\ m \in state_listeners'
                  /\ \E i \in 1..Len(registry') : registry'[i] = <<e, m>>
    /\ Len(monitors') > Len(monitors) =>
          \E e \in EntryIds : e \notin loaded /\ e \in loaded'

C22_State ==
    \A m \in Monitors :
        StopHasRun(m) =>
            /\ m \notin state_listeners /\ m \notin time_listeners
            /\ ~monitors[m].unsub_state /\ ~monitors[m].unsub_heartbeat

C22_StartOncePerInstance == []C22_State /\ [][C22_Step]_vars

\* the entry was reloaded: its first instance is stopped and out of the
\* registry, its second instance is registered and listening
C22_Witness ==
    /\ Len(monitors) = 2
    /\ monitors[1].entry_id = monitors[2].entry_id
    /\ StopHasRun(1) /\ ~Registered(1) /\ 1 \notin state_listeners
    /\ Registered(2) /\ 2 \in state_listeners /\ monitors[2].unsub_state


\* ---------------------------------------------------------------------------
\* C23: whenever an entry is set up (its sensor is connected) and no send of
\* its monitor is in flight, the last contact the sensor holds, and the value
\* it shows, are the monitor's last contact time; a send started by start()
\* that succeeds while the sensor is being set up is not lost to the sensor.
C23_InFlight(m) == \E t \in TaskIds : tasks[t].mon = m /\ ~Finished(tasks[t])

C23_SensorShowsLastContact ==
    \A e \in EntryIds :
        (SetupDone(e) /\ Loaded(e)) =>
            LET m == registry[RegistryGet(e)][2]
            IN  ~C23_InFlight(m) =>
                    /\ sensors[e].last_contact = monitors[m].last_contact_time
                    /\ native_value(sensors[e])
                          = IF monitors[m].last_contact_time = NoTime THEN None
                            ELSE <<"%Y-%m-%dT%H:%M:%SZ", monitors[m].last_contact_time>>


\* ---------------------------------------------------------------------------
\* C24: every monitor an on-demand command reaches through the registry is
\* Running: no send_heartbeat or send_state command starts a send on a monitor
\* whose stop() has run, the monitors stopped by the shutdown hook included.
C24_FromCommand(ts) ==
    {t \in 1..Len(ts) : ts[t].origin \in {"send_heartbeat", "send_state"}}

C24_Step ==
    \A t \in C24_FromCommand(tasks') \ TaskIds :
        Registered(tasks'[t].mon) /\ Running(tasks'[t].mon)

C24_CommandsReachRunningOnly == [][C24_Step]_vars


\* ---------------------------------------------------------------------------
\* C25: no two entries exist for the same collector base URL (without trailing
\* slash), entity id and attribute ("state" for no attribute).  A device step
\* or an import step for a combination an entry has is aborted and creates no
\* entry, and the import step makes no pairing request.
C25_Combination(data) ==
    <<RstripSlash(data.collector_url), data.entity_id,
      IF data.attribute \in {None, ""} THEN "state" ELSE data.attribute>>

C25_Exists(combination) ==
    \E i \in 1..Len(config_entries) :
        C25_Combination(config_entries[i].data) = combination

C25_Aborted(f) ==
    /\ flows'[f].pc = "aborted"
    /\ config_entries' = config_entries
    /\ pair_log' = pair_log

C25_Device ==
    \A f \in FlowIds, attribute \in AttributeInputs, states \in StatesInputs :
        (/\ flows[f].pc = "device_form"
         /\ normalize_monitored_states(states) # <<>>
         /\ C25_Exists(C25_Combination([collector_url |-> flows[f].settings.collector_url,
                                        entity_id |-> "sensor.leak",
                                        attribute |-> attribute]))) =>
            /\ ENABLED (SubmitDevice(f, "sensor.leak", attribute, states) /\ C25_Aborted(f))
            /\ ~ENABLED (SubmitDevice(f, "sensor.leak", attribute, states) /\ ~C25_Aborted(f))

C25_Import ==
    \A f \in FlowIds :
        (flows[f].pc = "import_init" /\ C25_Exists(C25_Combination(flows[f].conf))) =>
            /\ ENABLED (ImportStep(f) /\ C25_Aborted(f))
            /\ ~ENABLED (ImportStep(f) /\ ~C25_Aborted(f))

C25_OneEntryPerCombination ==
    /\ \A i, j \in 1..Len(config_entries) :
          i # j => C25_Combination(config_entries[i].data)
                     # C25_Combination(config_entries[j].data)
    /\ C25_Device
    /\ C25_Import

\* the import of a YAML item that carries a pairing code was aborted without a
\* pairing request, because a user flow had created the entry of the combination
C25_Witness ==
    \E f, g \in FlowIds :
        /\ flows[f].source = "user" /\ flows[f].pc = "created"
        /\ flows[g].source = "import" /\ flows[g].pc = "aborted"
        /\ flows[g].error = "already_configured"
        /\ flows[g].conf.pairing_code = "1234"
        /\ flows[g].conf.token \in {None, ""}
        /\ C13_Requests(g) = {}
        /\ Len(config_entries) = 1
        /\ C25_Combination(config_entries[1].data)
              = C25_Combination(flows[g].conf)

====
